---------------------------- MODULE Spec2Model ----------------------------
(***************************************************************************)
(* A model of the two Qwen (dashscope) adapters of graphrag:               *)
(*   graphrag/llm/openai/qwen_completion_llm.py   QwenCompletionLLM        *)
(*   graphrag/llm/openai/qwen_embeddings_llm.py   QwenEmbeddingsLLM        *)
(*                                                                         *)
(* A Python str is a sequence of one-character strings; a value that may   *)
(* be a str or None uses NoneStr for None.  A dict is the sequence of its  *)
(* items in insertion order.                                               *)
(***************************************************************************)
EXTENDS Integers, Sequences, FiniteSets, TLC

VARIABLES
    completion,   \* the QwenCompletionLLM instance (its fields, or the failed construction)
    embeddings,   \* the QwenEmbeddingsLLM instance
    calls,        \* per task: the call the task is making on the adapters
    pure_call     \* a call of one of the module-level functions

vars == <<completion, embeddings, calls, pure_call>>

----------------------------------------------------------------------------
(* Python str and list primitives                                          *)

\* None where a str is expected: no str equals it, its one element is no character.
NoneStr == << "None" >>

\* s[i:] of Python, i counted from 1.
Drop(s, i) == SubSeq(s, i, Len(s))

\* s.startswith(p)
StartsWith(s, p) == Len(p) <= Len(s) /\ SubSeq(s, 1, Len(p)) = p

\* p in s
Contains(s, p) == \E i \in 1..(Len(s) + 1) : StartsWith(Drop(s, i), p)

\* All sequences over S of length at most n.
StringsUpTo(S, n) == UNION { [1..k -> S] : k \in 0..n }

RECURSIVE Flatten(_)
Flatten(ss) == IF ss = <<>> THEN <<>> ELSE Head(ss) \o Flatten(Tail(ss))

\* str.replace(old, new) for a non-empty old: the non-overlapping occurrences
\* of old, found from the left, each replaced by new, in one pass.
RECURSIVE StrReplace(_, _, _)
StrReplace(s, old, new) ==
    IF Len(s) < Len(old) THEN s
    ELSE IF StartsWith(s, old)
         THEN new \o StrReplace(Drop(s, Len(old) + 1), old, new)
         ELSE <<Head(s)>> \o StrReplace(Tail(s), old, new)


----------------------------------------------------------------------------
(* replace_placeholders, qwen_completion_llm.py 121-125                    *)

\* The outcome of a Python call: it raised, or it returned value.
Returned(v) == [raised |-> FALSE, value |-> v]
Raised == [raised |-> TRUE, value |-> NoneStr]

\* "{" + key + "}"
Placeholder(key) == <<"{">> \o key \o <<"}">>

\* As replace_placeholders, with str.replace(placeholder, value, 1): only the
\* first occurrence of each placeholder is substituted.
RECURSIVE replace_placeholders_first_only(_, _)
replace_placeholders_first_only(input_str, variables) ==
    IF variables = <<>> THEN Returned(input_str)
    ELSE LET key == variables[1].key
             value == variables[1].value
             placeholder == Placeholder(key)
             at == { i \in 1..Len(input_str) : StartsWith(Drop(input_str, i), placeholder) }
         IN  IF value = NoneStr THEN Raised
             ELSE IF at = {} THEN replace_placeholders_first_only(input_str, Tail(variables))
             ELSE LET i == CHOOSE j \in at : \A k \in at : j <= k
                  IN  replace_placeholders_first_only(
                          SubSeq(input_str, 1, i - 1) \o value
                              \o Drop(input_str, i + Len(placeholder)),
                          Tail(variables))

\* for key, value in variables.items(): input_str = input_str.replace("{"+key+"}", value)
\* variables is the dict's items in insertion order.  str.replace raises
\* TypeError when value is not a str, whether or not the placeholder occurs.
RECURSIVE replace_placeholders(_, _)
replace_placeholders(input_str, variables) ==
    IF variables = <<>> THEN Returned(input_str)
    ELSE LET key == variables[1].key
             value == variables[1].value
             placeholder == Placeholder(key)
         IN  IF value = NoneStr THEN Raised
             ELSE replace_placeholders(StrReplace(input_str, placeholder, value),
                                       Tail(variables))

\* The dicts with keys among keys and values among values, as item sequences:
\* every insertion order of every subset of the keys.
Dicts(keys, values) ==
    { d \in UNION { [1..n -> [key : keys, value : values]] : n \in 0..Cardinality(keys) } :
        \A i, j \in 1..Len(d) : i # j => d[i].key # d[j].key }

----------------------------------------------------------------------------
(* Inputs of the replace_placeholders runs                                 *)

MaxTemplateTokens == 3

TemplateTokens == { <<"{">>, <<"}">>, <<"a">>, <<"b">>,
                    <<"{", "a", "}">>, <<"{", "b", "}">> }

Templates == { Flatten(ts) : ts \in StringsUpTo(TemplateTokens, MaxTemplateTokens) }

PlaceholderKeys == { <<"a">>, <<"b">> }

PlaceholderValues == { <<>>, <<"a">>, <<"b">>, <<"x">>, <<"{">>, <<"}">>,
                       <<"{", "a", "}">>, <<"{", "b", "}">> }

NoAdapter == [state |-> "absent"]
NoCalls == <<>>
NoPureCall == [fn |-> "none", pc |-> "none"]

InitReplace ==
    /\ completion = NoAdapter
    /\ embeddings = NoAdapter
    /\ calls = NoCalls
    /\ \E s \in Templates, v \in Dicts(PlaceholderKeys, PlaceholderValues) :
           pure_call = [fn |-> "replace_placeholders", pc |-> "called",
                        input_str |-> s, variables |-> v, ret |-> NoneStr]

\* The call of replace_placeholders runs to its return.
ReplaceReturn ==
    /\ pure_call.fn = "replace_placeholders"
    /\ pure_call.pc = "called"
    /\ pure_call' = [pure_call EXCEPT
                        !.pc = "returned",
                        !.ret = replace_placeholders(pure_call.input_str,
                                                     pure_call.variables).value]
    /\ UNCHANGED <<completion, embeddings, calls>>

NextReplace == ReplaceReturn

SpecReplace == InitReplace /\ [][NextReplace]_vars

IsBrace(c) == c \in {"{", "}"}

BraceFree(s) == \A i \in 1..Len(s) : ~IsBrace(s[i])

\* No "{" of s is followed by another "{" before the next "}".
NoNestedBrace(s) ==
    \A i, j \in 1..Len(s) :
        (i < j /\ s[i] = "{" /\ s[j] = "{") => \E k \in (i + 1)..(j - 1) : s[k] = "}"

ReplaceDone == pure_call.fn = "replace_placeholders" /\ pure_call.pc = "returned"

\* C5 as stated: after substitution the output contains no {key} for any key
\* of variables, whatever the template and the values.
C5_NoPlaceholderLeft ==
    ReplaceDone =>
        \A i \in 1..Len(pure_call.variables) :
            ~Contains(pure_call.ret, Placeholder(pure_call.variables[i].key))

C5_Precondition ==
    /\ NoNestedBrace(pure_call.input_str)
    /\ \A i \in 1..Len(pure_call.variables) :
           /\ BraceFree(pure_call.variables[i].key)
           /\ BraceFree(pure_call.variables[i].value)

\* C5 amended: when no value (and no key) contains a brace character and no
\* "{" of the template is followed by another "{" before the next "}", the
\* output contains no {key} for any key of variables.
C5_NoPlaceholderLeftBraceFree ==
    (ReplaceDone /\ C5_Precondition) =>
        \A i \in 1..Len(pure_call.variables) :
            ~Contains(pure_call.ret, Placeholder(pure_call.variables[i].key))

\* C5 witness: both keys' placeholders occur in a template of the amended
\* claim's kind and have been substituted.
C5_Witness ==
    /\ ReplaceDone
    /\ C5_Precondition
    /\ Len(pure_call.variables) = 2
    /\ \A i \in 1..2 : Contains(pure_call.input_str,
                                Placeholder(pure_call.variables[i].key))
    /\ \A i \in 1..2 : pure_call.variables[i].value = <<"x">>
    /\ pure_call.ret = <<"x", "x", "}">>


----------------------------------------------------------------------------
(* json.loads and json.dumps, as extract_json_strings and _invoke_json use *)
(* them.  The texts of the model hold no backslash, no control character   *)
(* and no fraction or exponent, so string escapes and floats are left out. *)

\* A Python value json.loads returns: None, a bool, an int, a str, a list or
\* a dict (members: its items in insertion order).
PyNone == [kind |-> "None", num |-> 0, str |-> <<>>, items |-> <<>>, members |-> <<>>]
PyBool(b) == [kind |-> "bool", num |-> IF b THEN 1 ELSE 0, str |-> <<>>, items |-> <<>>, members |-> <<>>]
PyInt(n) == [kind |-> "int", num |-> n, str |-> <<>>, items |-> <<>>, members |-> <<>>]
PyStr(s) == [kind |-> "str", num |-> 0, str |-> s, items |-> <<>>, members |-> <<>>]
PyList(xs) == [kind |-> "list", num |-> 0, str |-> <<>>, items |-> xs, members |-> <<>>]
PyDict(ms) == [kind |-> "dict", num |-> 0, str |-> <<>>, items |-> <<>>, members |-> ms]

\* d[key] = val on a dict's items: a repeated key keeps its place and takes
\* the new value.
DictSet(ms, key, val) ==
    IF \E i \in 1..Len(ms) : ms[i].key = key
    THEN [i \in 1..Len(ms) |-> IF ms[i].key = key THEN [key |-> key, val |-> val] ELSE ms[i]]
    ELSE Append(ms, [key |-> key, val |-> val])

Whitespace == {" ", "\t", "\n", "\r"}
Digits == {"0", "1", "2", "3", "4", "5", "6", "7", "8", "9"}

DigitValue(c) ==
    CASE c = "0" -> 0 [] c = "1" -> 1 [] c = "2" -> 2 [] c = "3" -> 3 [] c = "4" -> 4
      [] c = "5" -> 5 [] c = "6" -> 6 [] c = "7" -> 7 [] c = "8" -> 8 [] c = "9" -> 9

DigitChar(d) == <<"0", "1", "2", "3", "4", "5", "6", "7", "8", "9">>[d + 1]

\* The first index from i on that holds no whitespace (Len(s) + 1 at the end).
RECURSIVE SkipWhitespace(_, _)
SkipWhitespace(s, i) ==
    IF i <= Len(s) /\ s[i] \in Whitespace THEN SkipWhitespace(s, i + 1) ELSE i

\* A parse from some index: failed, or val read and pos the next index.
ParseFailed == [ok |-> FALSE, pos |-> 0, val |-> PyNone]
Parsed(pos, val) == [ok |-> TRUE, pos |-> pos, val |-> val]

\* The least element of a non-empty set of integers.
Least(S) == CHOOSE k \in S : \A l \in S : k <= l

\* The string whose opening quote is s[i] and whose closing quote is the
\* first of closing.
StringUpTo(s, i, closing) ==
    IF closing = {} THEN ParseFailed
    ELSE Parsed(Least(closing) + 1, PyStr(SubSeq(s, i + 1, Least(closing) - 1)))

\* The string whose opening quote is s[i].
ParseString(s, i) == StringUpTo(s, i, { j \in (i + 1)..Len(s) : s[j] = "\"" })

RECURSIVE DigitsEnd(_, _)
DigitsEnd(s, i) == IF i <= Len(s) /\ s[i] \in Digits THEN DigitsEnd(s, i + 1) ELSE i

RECURSIVE DigitsValue(_, _, _, _)
DigitsValue(s, i, j, acc) ==
    IF i >= j THEN acc ELSE DigitsValue(s, i + 1, j, 10 * acc + DigitValue(s[i]))

\* The digits s[k..e-1], negated if neg.
NumberFrom(s, k, e, neg) ==
    Parsed(e, PyInt(IF neg THEN 0 - DigitsValue(s, k, e, 0) ELSE DigitsValue(s, k, e, 0)))

\* (0|[1-9][0-9]*) from s[k].
ParseDigits(s, k, neg) ==
    IF k > Len(s) \/ s[k] \notin Digits THEN ParseFailed
    ELSE NumberFrom(s, k, IF s[k] = "0" THEN k + 1 ELSE DigitsEnd(s, k), neg)

\* -?(0|[1-9][0-9]*) from s[i].
ParseNumber(s, i) ==
    IF i <= Len(s) /\ s[i] = "-" THEN ParseDigits(s, i + 1, TRUE)
    ELSE ParseDigits(s, i, FALSE)

RECURSIVE ParseValue(_, _)
RECURSIVE ParseMembers(_, _, _)
RECURSIVE ParseItems(_, _, _)

\* After a member's value v at s[e]: "}" ends the object, "," leads to the
\* next key (a trailing comma fails there).
MembersAfterValue(s, e, ms) ==
    IF e > Len(s) THEN ParseFailed
    ELSE IF s[e] = "}" THEN Parsed(e + 1, PyDict(ms))
    ELSE IF s[e] = "," THEN ParseMembers(s, SkipWhitespace(s, e + 1), ms)
    ELSE ParseFailed

\* A member's value v, read for key after the members of acc.
MembersValue(s, key, v, acc) ==
    IF ~v.ok THEN ParseFailed
    ELSE MembersAfterValue(s, SkipWhitespace(s, v.pos), DictSet(acc, key, v.val))

\* After a member's key at s[c]: the ":" and the value.
MembersAfterKey(s, key, c, acc) ==
    IF c > Len(s) \/ s[c] # ":" THEN ParseFailed
    ELSE MembersValue(s, key, ParseValue(s, SkipWhitespace(s, c + 1)), acc)

\* A member's key, as ParseString read it.
MembersKey(s, key, acc) ==
    IF ~key.ok THEN ParseFailed
    ELSE MembersAfterKey(s, key.val.str, SkipWhitespace(s, key.pos), acc)

\* The members of an object from the key at s[i], after those of acc.
ParseMembers(s, i, acc) ==
    IF i > Len(s) \/ s[i] # "\"" THEN ParseFailed
    ELSE MembersKey(s, ParseString(s, i), acc)

\* After an array's item at s[e]: "]" ends the array, "," leads to the next item.
ItemsAfterValue(s, e, xs) ==
    IF e > Len(s) THEN ParseFailed
    ELSE IF s[e] = "]" THEN Parsed(e + 1, PyList(xs))
    ELSE IF s[e] = "," THEN ParseItems(s, SkipWhitespace(s, e + 1), xs)
    ELSE ParseFailed

\* An array's item v, read after the items of acc.
ItemsValue(s, v, acc) ==
    IF ~v.ok THEN ParseFailed
    ELSE ItemsAfterValue(s, SkipWhitespace(s, v.pos), Append(acc, v.val))

\* The items of an array from the value at s[i], after those of acc.
ParseItems(s, i, acc) == ItemsValue(s, ParseValue(s, i), acc)

\* The object or array opened before s[j], j past the whitespace.
ParseOpened(s, j, close) ==
    IF j <= Len(s) /\ s[j] = close
    THEN Parsed(j + 1, IF close = "}" THEN PyDict(<<>>) ELSE PyList(<<>>))
    ELSE IF close = "}" THEN ParseMembers(s, j, <<>>) ELSE ParseItems(s, j, <<>>)

ParseValue(s, i) ==
    IF i > Len(s) THEN ParseFailed
    ELSE IF s[i] = "\"" THEN ParseString(s, i)
    ELSE IF s[i] = "{" THEN ParseOpened(s, SkipWhitespace(s, i + 1), "}")
    ELSE IF s[i] = "[" THEN ParseOpened(s, SkipWhitespace(s, i + 1), "]")
    ELSE IF StartsWith(Drop(s, i), <<"n", "u", "l", "l">>) THEN Parsed(i + 4, PyNone)
    ELSE IF StartsWith(Drop(s, i), <<"t", "r", "u", "e">>) THEN Parsed(i + 4, PyBool(TRUE))
    ELSE IF StartsWith(Drop(s, i), <<"f", "a", "l", "s", "e">>) THEN Parsed(i + 5, PyBool(FALSE))
    ELSE ParseNumber(s, i)

\* The value v json.loads read, if the rest of s is whitespace.
WholeText(s, v) ==
    IF v.ok /\ SkipWhitespace(s, v.pos) > Len(s) THEN v ELSE ParseFailed

\* json.loads(s): ok, or JSONDecodeError; the whole text must be one value.
json_loads(s) == WholeText(s, ParseValue(s, SkipWhitespace(s, 1)))

RECURSIVE NatToStr(_)
NatToStr(n) == IF n < 10 THEN <<DigitChar(n)>> ELSE NatToStr(n \div 10) \o <<DigitChar(n % 10)>>

RECURSIVE json_dumps(_)
RECURSIVE DumpMembers(_)
RECURSIVE DumpItems(_)

DumpMembers(ms) ==
    IF ms = <<>> THEN <<>>
    ELSE <<"\"">> \o ms[1].key \o <<"\"", ":", " ">> \o json_dumps(ms[1].val)
         \o (IF Len(ms) > 1 THEN <<",", " ">> ELSE <<>>) \o DumpMembers(Tail(ms))

DumpItems(xs) ==
    IF xs = <<>> THEN <<>>
    ELSE json_dumps(xs[1]) \o (IF Len(xs) > 1 THEN <<",", " ">> ELSE <<>>) \o DumpItems(Tail(xs))

\* json.dumps(v) with the default separators; json.dumps(None) is the str "null".
json_dumps(v) ==
    CASE v.kind = "None" -> <<"n", "u", "l", "l">>
      [] v.kind = "bool" -> IF v.num = 1 THEN <<"t", "r", "u", "e">> ELSE <<"f", "a", "l", "s", "e">>
      [] v.kind = "int" -> IF v.num < 0 THEN <<"-">> \o NatToStr(0 - v.num) ELSE NatToStr(v.num)
      [] v.kind = "str" -> <<"\"">> \o v.str \o <<"\"">>
      [] v.kind = "list" -> <<"[">> \o DumpItems(v.items) \o <<"]">>
      [] v.kind = "dict" -> <<"{">> \o DumpMembers(v.members) \o <<"}">>

----------------------------------------------------------------------------
(* extract_json_strings, qwen_completion_llm.py 133-151                    *)

\* The index of the "}" that closes the "{" before s[j] at nesting depth, or 0:
\* where \{(?:[^{}]|(?R))*\} ends, anchored at that "{".
RECURSIVE BraceEnd(_, _, _)
BraceEnd(s, j, depth) ==
    IF j > Len(s) THEN 0
    ELSE IF s[j] = "{" THEN BraceEnd(s, j + 1, depth + 1)
    ELSE IF s[j] = "}" THEN (IF depth = 1 THEN j ELSE BraceEnd(s, j + 1, depth - 1))
    ELSE BraceEnd(s, j + 1, depth)

\* The matches from index i on, e the end of the match at i or 0.
RECURSIVE FindAll(_, _)
FindFrom(s, i, e) ==
    IF e = 0 THEN FindAll(s, i + 1)
    ELSE <<SubSeq(s, i, e)>> \o FindAll(s, e + 1)

\* json_pattern.findall(s) from index i: the matches from the left, each
\* search resuming after the previous match.
FindAll(s, i) ==
    IF i > Len(s) THEN <<>>
    ELSE FindFrom(s, i, IF s[i] = "{" THEN BraceEnd(s, i + 1, 1) ELSE 0)

\* One turn of the loop: json_object is json.loads(match); appended to
\* json_objects, or, on JSONDecodeError, match logged with log.warning.
LoadMatch(match, json_object, rest) ==
    IF json_object.ok
    THEN [rest EXCEPT !.json_objects = <<json_object.val>> \o @]
    ELSE [rest EXCEPT !.warnings = <<match>> \o @]

\* The loop over the matches: the parsed objects, and the matches that
\* json.loads rejected.
RECURSIVE LoadMatches(_)
LoadMatches(matches) ==
    IF matches = <<>> THEN [json_objects |-> <<>>, warnings |-> <<>>]
    ELSE LoadMatch(matches[1], json_loads(matches[1]), LoadMatches(Tail(matches)))

\* extract_json_strings(input_string); findall raises TypeError on a
\* non-str input_string.
extract_json_strings(input_string) ==
    IF input_string = NoneStr
    THEN [raised |-> TRUE, json_objects |-> <<>>, warnings |-> <<>>]
    ELSE [raised |-> FALSE] @@ LoadMatches(FindAll(input_string, 1))

----------------------------------------------------------------------------
(* Inputs of the extract_json_strings runs                                 *)

MaxSegments == 3

\* Valid JSON object texts, each with the value json.loads gives for it.
ObjectA == [text |-> <<"{", "\"", "a", "\"", ":", " ", "1", "}">>,
            value |-> PyDict(<<[key |-> <<"a">>, val |-> PyInt(1)]>>)]
ObjectNested ==
    [text |-> <<"{", "\"", "a", "\"", ":", "{", "\"", "b", "\"", ":", "2", "}", "}">>,
     value |-> PyDict(<<[key |-> <<"a">>,
                         val |-> PyDict(<<[key |-> <<"b">>, val |-> PyInt(2)]>>)]>>)]
ObjectBraceInString ==
    [text |-> <<"{", "\"", "b", "\"", ":", "\"", "}", "\"", "}">>,
     value |-> PyDict(<<[key |-> <<"b">>, val |-> PyStr(<<"}">>)]>>)]
ObjectEmpty == [text |-> <<"{", "}">>, value |-> PyDict(<<>>)]

JsonObjects == {ObjectA, ObjectNested, ObjectBraceInString, ObjectEmpty}

\* Text around the objects: plain, a lone brace, a balanced span that is no JSON.
Surroundings == { <<"x">>, <<"{">>, <<"}">>, <<"{", "m", "}">> }

Segments == { o.text : o \in JsonObjects } \cup Surroundings

Texts == { Flatten(ss) : ss \in StringsUpTo(Segments, MaxSegments) }

InitExtract ==
    /\ completion = NoAdapter
    /\ embeddings = NoAdapter
    /\ calls = NoCalls
    /\ \E s \in Texts :
           pure_call = [fn |-> "extract_json_strings", pc |-> "called",
                        input_string |-> s,
                        ret |-> [raised |-> FALSE, json_objects |-> <<>>,
                                 warnings |-> <<>>]]

\* The call of extract_json_strings runs to its return.
ExtractReturn ==
    /\ pure_call.fn = "extract_json_strings"
    /\ pure_call.pc = "called"
    /\ pure_call' = [pure_call EXCEPT
                        !.pc = "returned",
                        !.ret = extract_json_strings(pure_call.input_string)]
    /\ UNCHANGED <<completion, embeddings, calls>>

NextExtract == ExtractReturn

SpecExtract == InitExtract /\ [][NextExtract]_vars

ExtractDone == pure_call.fn = "extract_json_strings" /\ pure_call.pc = "returned"

InSeq(x, xs) == \E i \in 1..Len(xs) : xs[i] = x

\* C6 as stated: every valid JSON object text that occurs verbatim in the
\* input, whatever surrounds it and whatever its strings hold, has its
\* parsed form in the list extract_json_strings returns.
C6_EmbeddedObjectRecovered ==
    ExtractDone =>
        \A o \in JsonObjects :
            Contains(pure_call.input_string, o.text) =>
                InSeq(o.value, pure_call.ret.json_objects)


----------------------------------------------------------------------------
(* The adapters' construction                                              *)

\* A dict argument with str keys (llm_config, **kwargs): given is the set of
\* its keys, and a key not given holds a filler that is never read.  None,
\* where a dict is expected, is NoneDict.
NoneDict == [none |-> TRUE, given |-> {}, api_key |-> "", model |-> "", type |-> ""]
EmptyDict == [none |-> FALSE, given |-> {}, api_key |-> "", model |-> "", type |-> ""]

\* d.get(key, default)
DictGet(d, key, default) == IF key \in d.given THEN d[key] ELSE default

\* d or {}
OrEmptyDict(d) == IF d.none \/ d.given = {} THEN EmptyDict ELSE d

\* The members of graphrag.config.LLMType the adapter names, and the
\* dashscope default models.
LLMType_StaticResponse == "LLMType.StaticResponse"
LLMType_QwenChat == "LLMType.QwenChat"
Models_qwen_turbo == "dashscope.Generation.Models.qwen_turbo"
Models_text_embedding_v1 == "dashscope.TextEmbedding.Models.text_embedding_v1"

\* QwenCompletionLLM.__init__: the instance, or the failed construction.
\* Lines 40 and 41 call llm_config.get on the argument itself, which raises
\* AttributeError when the argument is None.
QwenCompletionLLM_init(llm_config) ==
    LET self_llm_config == OrEmptyDict(llm_config)
    IN  IF llm_config.none
        THEN [state |-> "raised", error |-> "AttributeError"]
        ELSE [state |-> "ready",
              llm_config |-> self_llm_config,
              api_key |-> DictGet(self_llm_config, "api_key", ""),
              model |-> DictGet(self_llm_config, "model", Models_qwen_turbo),
              llm_type |-> DictGet(llm_config, "type", LLMType_StaticResponse),
              chat_mode |-> (DictGet(llm_config, "type", LLMType_StaticResponse)
                                = LLMType_QwenChat)]

\* QwenEmbeddingsLLM.__init__
QwenEmbeddingsLLM_init(llm_config) ==
    LET self_llm_config == OrEmptyDict(llm_config)
    IN  [state |-> "ready",
         llm_config |-> self_llm_config,
         api_key |-> DictGet(self_llm_config, "api_key", ""),
         model |-> DictGet(self_llm_config, "model", Models_text_embedding_v1)]

----------------------------------------------------------------------------
(* QwenCompletionLLM._execute_llm and _invoke_json                         *)

HTTPStatus_OK == 200

\* kwargs.get(key, default), kwargs a dict of the keyword arguments given.
KwGet(kwargs, key, default) == IF key \in kwargs.given THEN kwargs[key] ELSE default

NoRequest == [api |-> "", model |-> "", api_key |-> "", prompt |-> NoneStr,
              messages |-> <<>>, result_format |-> "", input |-> <<>>]

\* dashscope.Generation.call(model=, prompt=, api_key=)
call_with_prompt(self, query) ==
    [api |-> "Generation.call", model |-> self.model, api_key |-> self.api_key,
     prompt |-> query, messages |-> <<>>, result_format |-> "", input |-> <<>>]

\* dashscope.Generation.call(model=, messages=, api_key=, result_format='message')
call_with_messages(self, messages) ==
    [api |-> "Generation.call", model |-> self.model, api_key |-> self.api_key,
     prompt |-> NoneStr, messages |-> messages, result_format |-> "message",
     input |-> <<>>]

\* As BuildMessages, with history.append(...) in place of a new list.
BuildMessagesInPlace(history, formatted_input) ==
    LET appended == Append(history, [role |-> "user", content |-> formatted_input])
    IN  [messages |-> appended, history |-> appended]

\* messages = [*history, {"role": "user", "content": formatted_input}]: a new
\* list; history is the caller's list after the statement.
BuildMessages(history, formatted_input) ==
    [messages |-> history \o <<[role |-> "user", content |-> formatted_input]>>,
     history |-> history]

\* _execute_llm up to the remote call, lines 51-64: it raised (in
\* replace_placeholders), or it sent request.
ExecuteRequest(self, input, kwargs) ==
    LET variables == KwGet(kwargs, "variables", <<>>)
        formatted_input == replace_placeholders(input, variables)
        history == KwGet(kwargs, "history", <<>>)
    IN  IF formatted_input.raised
        THEN [raised |-> TRUE, request |-> NoRequest, history |-> history]
        ELSE IF self.chat_mode
             THEN LET built == BuildMessages(history, formatted_input.value)
                  IN  [raised |-> FALSE,
                       request |-> call_with_messages(self, built.messages),
                       history |-> built.history]
             ELSE [raised |-> FALSE,
                   request |-> call_with_prompt(self, formatted_input.value),
                   history |-> history]

NoError == [type |-> "", text |-> <<>>]

\* f"Error {response.code}: {response.message}"
ErrorText(response) ==
    <<"E", "r", "r", "o", "r", " ">> \o response.code \o <<":", " ">> \o response.message

\* As ExecuteResult, reading output["text"] in both modes.
ExecuteResultTextOnly(self, response) ==
    IF response.status_code = HTTPStatus_OK
    THEN [raised |-> FALSE, value |-> response.output.text, error |-> NoError,
          read |-> "text"]
    ELSE [raised |-> TRUE, value |-> NoneStr,
          error |-> [type |-> "Exception", text |-> ErrorText(response)],
          read |-> ""]

\* As ExecuteResult, returning None on a non-success status.
ExecuteResultNoRaise(self, response) ==
    IF response.status_code = HTTPStatus_OK
    THEN IF self.chat_mode
         THEN IF response.output.choices = <<>>
              THEN [raised |-> TRUE, value |-> NoneStr,
                    error |-> [type |-> "IndexError", text |-> <<>>], read |-> "choices"]
              ELSE [raised |-> FALSE, value |-> response.output.choices[1].message.content,
                    error |-> NoError, read |-> "choices"]
         ELSE [raised |-> FALSE, value |-> response.output.text, error |-> NoError,
               read |-> "text"]
    ELSE [raised |-> FALSE, value |-> NoneStr, error |-> NoError, read |-> ""]

\* _execute_llm from the response on, lines 66-72: the value returned or the
\* exception raised; read is the field of the output the branch taken reads.
\* An output with no choice raises at choices[0].
ExecuteResult(self, response) ==
    IF response.status_code = HTTPStatus_OK
    THEN IF self.chat_mode
         THEN IF response.output.choices = <<>>
              THEN [raised |-> TRUE, value |-> NoneStr,
                    error |-> [type |-> "IndexError", text |-> <<>>], read |-> "choices"]
              ELSE [raised |-> FALSE, value |-> response.output.choices[1].message.content,
                    error |-> NoError, read |-> "choices"]
         ELSE [raised |-> FALSE, value |-> response.output.text, error |-> NoError,
               read |-> "text"]
    ELSE [raised |-> TRUE, value |-> NoneStr,
          error |-> [type |-> "Exception", text |-> ErrorText(response)],
          read |-> ""]

\* As InvokeJsonResult, with json_data = extracted_jsons[-1].
InvokeJsonResultLast(executed) ==
    IF executed.raised
    THEN [raised |-> FALSE, output |-> NoneStr, json |-> PyNone, warnings |-> <<>>]
    ELSE LET extracted == extract_json_strings(executed.value)
             extracted_jsons == extracted.json_objects
         IN  IF extracted.raised
             THEN [raised |-> TRUE, output |-> NoneStr, json |-> PyNone, warnings |-> <<>>]
             ELSE LET json_data == IF Len(extracted_jsons) > 0
                                   THEN extracted_jsons[Len(extracted_jsons)] ELSE PyNone
                  IN  [raised |-> FALSE, output |-> json_dumps(json_data),
                       json |-> json_data, warnings |-> extracted.warnings]

\* _invoke_json after the await of _execute_llm, lines 97-118.  executed is
\* the outcome of _execute_llm.  The except clause covers that await only:
\* an exception of extract_json_strings leaves _invoke_json.  json.dumps of a
\* value json.loads returned, or of None, does not raise.
InvokeJsonResult(executed) ==
    IF executed.raised
    THEN [raised |-> FALSE, output |-> NoneStr, json |-> PyNone, warnings |-> <<>>]
    ELSE LET extracted == extract_json_strings(executed.value)
             extracted_jsons == extracted.json_objects
         IN  IF extracted.raised
             THEN [raised |-> TRUE, output |-> NoneStr, json |-> PyNone, warnings |-> <<>>]
             ELSE LET json_data == IF Len(extracted_jsons) > 0
                                   THEN extracted_jsons[1] ELSE PyNone
                      output_str == json_dumps(json_data)
                  IN  [raised |-> FALSE, output |-> output_str, json |-> json_data,
                       warnings |-> extracted.warnings]

----------------------------------------------------------------------------
(* QwenEmbeddingsLLM._execute_llm                                          *)

\* dashscope.TextEmbedding.call(model=, input=, api_key=)
EmbedRequest(self, input) ==
    [api |-> "TextEmbedding.call", model |-> self.model, api_key |-> self.api_key,
     prompt |-> NoneStr, messages |-> <<>>, result_format |-> "", input |-> input]

\* Lines 41-45: [embedding["embedding"] for embedding in response.output["embeddings"]]
EmbedResult(response) ==
    IF response.status_code = HTTPStatus_OK
    THEN [raised |-> FALSE,
          vectors |-> [i \in 1..Len(response.output.embeddings) |->
                          response.output.embeddings[i].embedding],
          error |-> NoError]
    ELSE [raised |-> TRUE, vectors |-> <<>>,
          error |-> [type |-> "Exception", text |-> ErrorText(response)]]


----------------------------------------------------------------------------
(* The calls of the tasks                                                  *)

NoKwargs == [given |-> {}, variables |-> <<>>, history |-> <<>>]

NoOutput == [text |-> NoneStr, choices |-> <<>>, embeddings |-> <<>>]
NoResponse == [status_code |-> 0, code |-> <<>>, message |-> <<>>, output |-> NoOutput]

\* A task's call: pc is idle, awaiting (the request is with the remote
\* service), returned or raised.  history is the caller's history list as
\* the call leaves it; value and execute_raised are the outcome of
\* _execute_llm; output, json and warnings those of _invoke_json; vectors
\* that of the embedding call; error is the exception that left the call.
IdleCall ==
    [pc |-> "idle", op |-> "", input |-> <<>>, kwargs |-> NoKwargs, history |-> <<>>,
     request |-> NoRequest, response |-> NoResponse, execute_raised |-> FALSE,
     read |-> "", value |-> NoneStr, output |-> NoneStr, json |-> PyNone,
     vectors |-> <<>>, error |-> NoError, warnings |-> <<>>]

\* As SelfAfterCall, with the request kept on the instance (self.model
\* overwritten by a per-call value).
SelfAfterCallStoring(self, request) == [self EXCEPT !.model = request.api]

\* The instance after a call on it: neither _execute_llm, call_with_prompt,
\* call_with_messages nor _invoke_json assigns a field of self.
SelfAfterCall(self, request) == self

ConstructCompletion(llm_config) ==
    /\ completion.state = "absent"
    /\ completion' = QwenCompletionLLM_init(llm_config)
    /\ UNCHANGED <<embeddings, calls, pure_call>>

ConstructEmbeddings(llm_config) ==
    /\ embeddings.state = "absent"
    /\ embeddings' = QwenEmbeddingsLLM_init(llm_config)
    /\ UNCHANGED <<completion, calls, pure_call>>

\* Task t calls _execute_llm (op "execute") or _invoke_json (op "invoke_json")
\* and runs to the remote call, or to the end when replace_placeholders raises.
CallCompletion(t, op, input, kwargs) ==
    /\ completion.state = "ready"
    /\ calls[t].pc = "idle"
    /\ LET sent == ExecuteRequest(completion, input, kwargs)
           started == [IdleCall EXCEPT !.op = op, !.input = input, !.kwargs = kwargs,
                                       !.history = sent.history,
                                       !.request = sent.request]
           executed == [raised |-> TRUE, value |-> NoneStr,
                        error |-> [type |-> "TypeError", text |-> <<>>], read |-> ""]
           invoked == InvokeJsonResult(executed)
       IN  /\ calls' = [calls EXCEPT ![t] =
                  IF ~sent.raised THEN [started EXCEPT !.pc = "awaiting"]
                  ELSE IF op = "execute"
                       THEN [started EXCEPT !.pc = "raised", !.execute_raised = TRUE,
                                            !.error = executed.error]
                       ELSE [started EXCEPT !.pc = "returned", !.execute_raised = TRUE,
                                            !.output = invoked.output,
                                            !.json = invoked.json,
                                            !.warnings = invoked.warnings]]
           /\ completion' = SelfAfterCall(completion, sent.request)
    /\ UNCHANGED <<embeddings, pure_call>>

\* The remote service answers task t's completion request and the call runs
\* to its end.
RespondCompletion(t, response) ==
    /\ completion.state = "ready"
    /\ calls[t].pc = "awaiting"
    /\ calls[t].op \in {"execute", "invoke_json"}
    /\ LET executed == ExecuteResult(completion, response)
           invoked == InvokeJsonResult(executed)
           answered == [calls[t] EXCEPT !.response = response,
                                        !.execute_raised = executed.raised,
                                        !.read = executed.read,
                                        !.value = executed.value]
       IN  calls' = [calls EXCEPT ![t] =
               IF calls[t].op = "execute"
               THEN [answered EXCEPT !.pc = IF executed.raised THEN "raised" ELSE "returned",
                                     !.error = executed.error]
               ELSE [answered EXCEPT !.pc = IF invoked.raised THEN "raised" ELSE "returned",
                                     !.error = IF invoked.raised
                                               THEN [type |-> "TypeError", text |-> <<>>]
                                               ELSE NoError,
                                     !.output = invoked.output,
                                     !.json = invoked.json,
                                     !.warnings = invoked.warnings]]
    /\ completion' = SelfAfterCall(completion, calls[t].request)
    /\ UNCHANGED <<embeddings, pure_call>>

\* Task t calls the embedding adapter's _execute_llm (op "embed").
CallEmbed(t, input) ==
    /\ embeddings.state = "ready"
    /\ calls[t].pc = "idle"
    /\ calls' = [calls EXCEPT ![t] =
           [IdleCall EXCEPT !.pc = "awaiting", !.op = "embed", !.input = input,
                            !.request = EmbedRequest(embeddings, input)]]
    /\ UNCHANGED <<completion, embeddings, pure_call>>

\* The remote service answers task t's embedding request.
RespondEmbed(t, response) ==
    /\ embeddings.state = "ready"
    /\ calls[t].pc = "awaiting"
    /\ calls[t].op = "embed"
    /\ LET embedded == EmbedResult(response)
       IN  calls' = [calls EXCEPT ![t] =
               [@ EXCEPT !.response = response,
                         !.pc = IF embedded.raised THEN "raised" ELSE "returned",
                         !.vectors = embedded.vectors,
                         !.error = embedded.error]]
    /\ UNCHANGED <<completion, embeddings, pure_call>>

\* Task t's caller has taken the outcome; the task may call again.
Finish(t) ==
    /\ calls[t].pc \in {"returned", "raised"}
    /\ calls' = [calls EXCEPT ![t] = IdleCall]
    /\ UNCHANGED <<completion, embeddings, pure_call>>

----------------------------------------------------------------------------
(* What the callers pass and what the remote service answers               *)

Kwargs(given, variables, history) ==
    [given |-> given, variables |-> variables, history |-> history]

Item(key, value) == [key |-> key, value |-> value]
Message(role, content) == [role |-> role, content |-> content]
Choice(content) == [message |-> Message("assistant", content)]

Config(given, api_key, model, type) ==
    [none |-> FALSE, given |-> given, api_key |-> api_key, model |-> model, type |-> type]

Failure(status_code, code, message) ==
    [status_code |-> status_code, code |-> code, message |-> message, output |-> NoOutput]

Success(output) ==
    [status_code |-> HTTPStatus_OK, code |-> <<>>, message |-> <<>>, output |-> output]

BadRequest == Failure(400, <<"X">>, <<"b", "a", "d">>)

FailureResponses == { BadRequest, Failure(429, <<"T">>, <<"s", "l", "o", "w">>) }

\* The success answers of Generation.call with text or a first choice's
\* content among texts or None, one with no choice, one with two choices.
GenerationResponses(texts) ==
    { Success([text |-> t, choices |-> <<>>, embeddings |-> <<>>]) :
          t \in texts \cup {NoneStr} }
    \cup { Success([text |-> NoneStr, choices |-> <<Choice(t)>>, embeddings |-> <<>>]) :
          t \in texts \cup {NoneStr} }
    \cup { Success([text |-> <<"t">>,
                    choices |-> <<Choice(<<"h", "i">>), Choice(<<"y">>)>>,
                    embeddings |-> <<>>]) }

EmbeddingResponses ==
    { Success([text |-> NoneStr, choices |-> <<>>, embeddings |-> e]) :
          e \in { <<>>, <<[embedding |-> <<1, 2>>]>>,
                  <<[embedding |-> <<1, 2>>], [embedding |-> <<3, 4>>]>> } }

EmbeddingInputs == { << <<"a">> >>, << <<"a">>, <<"b">> >> }

CompletionConfigs ==
    { NoneDict, EmptyDict,
      Config({"type"}, "", "", LLMType_QwenChat),
      Config({"api_key", "model", "type"}, "sk-1", "qwen-max", LLMType_QwenChat),
      Config({"api_key", "type"}, "sk-1", "", "LLMType.OpenAIChat") }

EmbeddingConfigs == { NoneDict, Config({"api_key", "model"}, "sk-1", "text-embedding-v2", "") }

----------------------------------------------------------------------------
(* Spec: construction, then calls of several tasks on the two instances    *)

NumTasks == 2

Tasks == 1..NumTasks

SmallInputs == { <<"{", "a", "}">> }

SmallKwargs ==
    { NoKwargs,
      Kwargs({"variables", "history"}, <<Item(<<"a">>, <<"x">>)>>,
             <<Message("system", <<"s">>)>>) }

SmallTexts == { ObjectA.text }

SmallEmbeddingInputs == { << <<"a">> >> }

Init ==
    /\ completion = NoAdapter
    /\ embeddings = NoAdapter
    /\ calls = [t \in Tasks |-> IdleCall]
    /\ pure_call = NoPureCall

Next ==
    \/ \E c \in CompletionConfigs : ConstructCompletion(c)
    \/ \E c \in EmbeddingConfigs : ConstructEmbeddings(c)
    \/ \E t \in Tasks, op \in {"execute", "invoke_json"},
          input \in SmallInputs, kwargs \in SmallKwargs :
           CallCompletion(t, op, input, kwargs)
    \/ \E t \in Tasks, r \in {BadRequest} \cup GenerationResponses(SmallTexts) :
           RespondCompletion(t, r)
    \/ \E t \in Tasks, input \in SmallEmbeddingInputs : CallEmbed(t, input)
    \/ \E t \in Tasks, r \in {BadRequest} \cup EmbeddingResponses : RespondEmbed(t, r)
    \/ \E t \in Tasks : Finish(t)

Spec == Init /\ [][Next]_vars


----------------------------------------------------------------------------
(* SpecCalls: one task's calls on constructed instances, over a wider      *)
(* range of arguments and answers                                          *)

MaxResponseSegments == 2

\* 'prefix {"a": 1} suffix {malformed'
ExampleText ==
    <<"p", "r", "e", "f", "i", "x", " ">> \o ObjectA.text
        \o <<" ", "s", "u", "f", "f", "i", "x", " ">>
        \o <<"{", "m", "a", "l", "f", "o", "r", "m", "e", "d">>

Hello == <<"h", "e", "l", "l", "o">>

ResponseSegments ==
    { ObjectA.text, ObjectNested.text, ObjectBraceInString.text,
      <<"{", "m", "}">>, <<"{">>, <<"x">> }

ResponseTexts ==
    { Flatten(ss) : ss \in StringsUpTo(ResponseSegments, MaxResponseSegments) }
        \cup { ExampleText, Hello }

CallInputs == { <<"q", " ", "{", "a", "}">>, <<"{", "a", "}", "{", "b", "}">> }

CallVariables ==
    { <<Item(<<"a">>, <<"x">>)>>,
      <<Item(<<"a">>, <<"{", "b", "}">>), Item(<<"b">>, <<"y">>)>>,
      <<Item(<<"a">>, NoneStr)>> }

CallHistories ==
    { <<Message("system", <<"s">>)>>,
      <<Message("user", <<"u">>), Message("assistant", <<"v">>)>> }

CallKwargs ==
    { NoKwargs }
    \cup { Kwargs({"variables"}, v, <<>>) : v \in CallVariables }
    \cup { Kwargs({"history"}, <<>>, h) : h \in CallHistories }
    \cup { Kwargs({"variables", "history"}, v, h) : v \in CallVariables, h \in CallHistories }

InitCalls ==
    /\ completion \in { QwenCompletionLLM_init(c) :
                          c \in { EmptyDict,
                                  Config({"api_key", "model", "type"}, "sk-1",
                                         "qwen-max", LLMType_QwenChat) } }
    /\ embeddings = QwenEmbeddingsLLM_init(NoneDict)
    /\ calls = [t \in {1} |-> IdleCall]
    /\ pure_call = NoPureCall

NextCalls ==
    \/ \E op \in {"execute", "invoke_json"}, input \in CallInputs, kwargs \in CallKwargs :
           CallCompletion(1, op, input, kwargs)
    \/ \E r \in FailureResponses \cup GenerationResponses(ResponseTexts) :
           RespondCompletion(1, r)
    \/ \E input \in EmbeddingInputs : CallEmbed(1, input)
    \/ \E r \in FailureResponses \cup EmbeddingResponses : RespondEmbed(1, r)
    \/ Finish(1)

SpecCalls == InitCalls /\ [][NextCalls]_vars


----------------------------------------------------------------------------
(* The claims                                                              *)

Finished(c) == c.pc \in {"returned", "raised"}

Ok(c) == c.response.status_code = HTTPStatus_OK

Answered(c) == Finished(c) /\ c.response # NoResponse

\* text holds a span, from a "{" to a "}", that json.loads accepts.
HasParseableObject(text) ==
    \E i \in 1..Len(text) : \E j \in i..Len(text) :
        text[i] = "{" /\ text[j] = "}" /\ json_loads(SubSeq(text, i, j)).ok

\* C1 as stated: a call of _invoke_json never raises, whatever the input,
\* the kwargs and the remote answer, and when _execute_llm raised its result
\* is {output: None, json: None}.
C1_StructuredNeverRaises ==
    \A t \in DOMAIN calls :
        (calls[t].op = "invoke_json" /\ Finished(calls[t])) =>
            /\ calls[t].pc = "returned"
            /\ calls[t].execute_raised =>
                   (calls[t].output = NoneStr /\ calls[t].json = PyNone)

\* C2 as stated: a call of _invoke_json whose _execute_llm failed, and one
\* whose _execute_llm returned a text with no parseable JSON object, both
\* return {output: None, json: None}.
C2_FailureLooksLikeNoJson ==
    \A t \in DOMAIN calls :
        (/\ calls[t].op = "invoke_json"
         /\ Finished(calls[t])
         /\ \/ calls[t].execute_raised
            \/ /\ calls[t].value # NoneStr
               /\ ~HasParseableObject(calls[t].value))
        => (/\ calls[t].pc = "returned"
            /\ calls[t].output = NoneStr
            /\ calls[t].json = PyNone)

\* C3: when the remote answer's status code is not OK, _execute_llm (of the
\* completion adapter, in either mode) and the embedding adapter's
\* _execute_llm return nothing and raise to their caller an error whose text
\* is "Error <code>: <message>", so that it holds the answer's code and
\* message; for {status_code: 400, code: "X", message: "bad"} it holds "X"
\* and "bad".
C3_NonOkStatusRaises ==
    \A t \in DOMAIN calls :
        (/\ calls[t].op \in {"execute", "embed"}
         /\ Answered(calls[t])
         /\ ~Ok(calls[t]))
        => (/\ calls[t].pc = "raised"
            /\ calls[t].value = NoneStr
            /\ calls[t].vectors = <<>>
            /\ calls[t].error.type = "Exception"
            /\ calls[t].error.text =
                   <<"E", "r", "r", "o", "r", " ">> \o calls[t].response.code
                       \o <<":", " ">> \o calls[t].response.message
            /\ Contains(calls[t].error.text, calls[t].response.code)
            /\ Contains(calls[t].error.text, calls[t].response.message)
            /\ calls[t].response = BadRequest =>
                   /\ Contains(calls[t].error.text, <<"X">>)
                   /\ Contains(calls[t].error.text, <<"b", "a", "d">>))

\* C3 witness: the embedding call raised on the 400 answer.
C3_Witness ==
    \E t \in DOMAIN calls :
        /\ calls[t].op = "embed"
        /\ calls[t].pc = "raised"
        /\ calls[t].response = BadRequest

\* C4: when the remote answer's status code is OK, _execute_llm returns the
\* first choice's message content if the request was sent in chat mode (and
\* the answer has a choice) and the answer's text if it was sent as a single
\* prompt; the field read is the one of the mode the request was sent in.
C4_SuccessReadByMode ==
    \A t \in DOMAIN calls :
        (calls[t].op = "execute" /\ Answered(calls[t]) /\ Ok(calls[t])) =>
            /\ completion.chat_mode <=> (calls[t].request.result_format = "message")
            /\ calls[t].request.result_format = "message" =>
                   /\ calls[t].read = "choices"
                   /\ calls[t].response.output.choices # <<>> =>
                          /\ calls[t].pc = "returned"
                          /\ calls[t].value =
                                 calls[t].response.output.choices[1].message.content
            /\ calls[t].request.result_format # "message" =>
                   /\ calls[t].read = "text"
                   /\ calls[t].pc = "returned"
                   /\ calls[t].value = calls[t].response.output.text

\* C4 witness: a chat-mode call returned "hi", the first of two choices,
\* from an answer whose text is something else.
C4_Witness ==
    \E t \in DOMAIN calls :
        /\ calls[t].op = "execute"
        /\ calls[t].pc = "returned"
        /\ completion.chat_mode
        /\ Len(calls[t].response.output.choices) = 2
        /\ calls[t].response.output.text = <<"t">>
        /\ calls[t].value = <<"h", "i">>

\* The candidates of text that json.loads accepts, by index.
ParsingCandidates(text) ==
    { i \in 1..Len(FindAll(text, 1)) : json_loads(FindAll(text, 1)[i]).ok }

\* The candidates of text that json.loads rejects, in text order.
RejectedCandidates(text) ==
    SelectSeq(FindAll(text, 1), LAMBDA m : ~json_loads(m).ok)

\* The part of C9 about every text: json is the first candidate span, in
\* text order, that parses; the spans that do not parse are each logged and
\* block nothing; json is None exactly when no candidate parses.
C9_FirstParsedCandidate(c) ==
    /\ c.pc = "returned"
    /\ c.warnings = RejectedCandidates(c.value)
    /\ (c.json = PyNone) <=> (ParsingCandidates(c.value) = {})
    /\ ParsingCandidates(c.value) # {} =>
           c.json = json_loads(FindAll(c.value, 1)[Least(ParsingCandidates(c.value))]).val
    /\ c.output = json_dumps(c.json)

Malformed == <<"{", "m", "a", "l", "f", "o", "r", "m", "e", "d">>

\* C9 as stated: the above, and for 'prefix {"a": 1} suffix {malformed' json
\* is {"a": 1}, output is not None and a warning is logged for the malformed
\* span.
C9_FirstParsedAndMalformedWarned ==
    \A t \in DOMAIN calls :
        (/\ calls[t].op = "invoke_json"
         /\ Answered(calls[t])
         /\ ~calls[t].execute_raised
         /\ calls[t].value # NoneStr)
        => (/\ C9_FirstParsedCandidate(calls[t])
            /\ calls[t].value = ExampleText =>
                   /\ calls[t].json = ObjectA.value
                   /\ calls[t].output # NoneStr
                   /\ \E i \in 1..Len(calls[t].warnings) :
                          Contains(calls[t].warnings[i], Malformed))

\* C9 amended: the above for every text, and for
\* 'prefix {"a": 1} suffix {malformed' json is {"a": 1}, output is the str
\* '{"a": 1}' and no warning is logged: the unbalanced "{malformed" is not a
\* candidate span.
C9_FirstParsedNoWarningForUnbalanced ==
    \A t \in DOMAIN calls :
        (/\ calls[t].op = "invoke_json"
         /\ Answered(calls[t])
         /\ ~calls[t].execute_raised
         /\ calls[t].value # NoneStr)
        => (/\ C9_FirstParsedCandidate(calls[t])
            /\ calls[t].value = ExampleText =>
                   /\ calls[t].json = ObjectA.value
                   /\ calls[t].output = ObjectA.text
                   /\ calls[t].warnings = <<>>)

\* C9 witness: a span that does not parse came first and was logged, and
\* the first of the two parseable spans after it became json.
C9_Witness ==
    \E t \in DOMAIN calls :
        /\ calls[t].op = "invoke_json"
        /\ calls[t].pc = "returned"
        /\ calls[t].value = ObjectBraceInString.text \o ObjectNested.text
        /\ Len(calls[t].warnings) = 1
        /\ calls[t].json = ObjectNested.value

\* C10: in chat mode the request's messages are the caller's history, in
\* order and unchanged, followed by the one entry {role: "user", content:
\* <substituted input>}, and the caller's history list is left as it was;
\* in non-chat mode the request holds only the substituted input as its
\* prompt, whatever the history.
C10_RequestFromHistoryAndInput ==
    \A t \in DOMAIN calls :
        (calls[t].op \in {"execute", "invoke_json"} /\ calls[t].request # NoRequest) =>
            LET history_in == KwGet(calls[t].kwargs, "history", <<>>)
                substituted == replace_placeholders(
                                   calls[t].input,
                                   KwGet(calls[t].kwargs, "variables", <<>>)).value
                request == calls[t].request
            IN  /\ request.api = "Generation.call"
                /\ calls[t].history = history_in
                /\ completion.chat_mode =>
                       /\ Len(request.messages) = Len(history_in) + 1
                       /\ SubSeq(request.messages, 1, Len(history_in)) = history_in
                       /\ request.messages[Len(request.messages)] =
                              [role |-> "user", content |-> substituted]
                       /\ request.prompt = NoneStr
                       /\ request.result_format = "message"
                /\ ~completion.chat_mode =>
                       /\ request.prompt = substituted
                       /\ request.messages = <<>>
                       /\ request.result_format = ""

\* C10 witness: a chat-mode request sent with a two-message history and a
\* substituted input.
C10_Witness ==
    \E t \in DOMAIN calls :
        /\ calls[t].op = "execute"
        /\ calls[t].pc = "awaiting"
        /\ completion.chat_mode
        /\ Len(KwGet(calls[t].kwargs, "history", <<>>)) = 2
        /\ Len(calls[t].request.messages) = 3
        /\ calls[t].request.messages[3].content = <<"q", " ", "x">>

\* C7 as stated: constructing the completion adapter succeeds for every
\* configuration argument, None included, and derives api_key, model and
\* chat_mode from it.
C7_ConstructionSucceeds ==
    completion.state # "absent" =>
        /\ completion.state = "ready"
        /\ completion.api_key = DictGet(completion.llm_config, "api_key", "")
        /\ completion.model = DictGet(completion.llm_config, "model", Models_qwen_turbo)
        /\ completion.chat_mode <=>
               /\ "type" \in completion.llm_config.given
               /\ completion.llm_config.type = LLMType_QwenChat

\* No step changes a constructed instance.
InstancesKept ==
    /\ completion.state = "ready" => completion' = completion
    /\ embeddings.state = "ready" => embeddings' = embeddings

\* Two finished calls with the same operation, arguments and remote answer
\* have the same outcome, whatever else ran on the instance before or
\* between.
SameCallSameOutcome ==
    \A t1, t2 \in DOMAIN calls :
        (/\ Finished(calls[t1])
         /\ Finished(calls[t2])
         /\ calls[t1].op = calls[t2].op
         /\ calls[t1].input = calls[t2].input
         /\ calls[t1].kwargs = calls[t2].kwargs
         /\ calls[t1].response = calls[t2].response)
        => calls[t1] = calls[t2]

\* C8: after construction no call, in any order or interleaving of the
\* tasks, changes a field of an instance, and a call's outcome depends on
\* its own arguments and its own remote answer only.
C8_InstancesStateless == [][InstancesKept]_vars /\ []SameCallSameOutcome

\* C8 witness: two tasks have finished the same structured call with the
\* same answer on the one instance.
C8_Witness ==
    /\ completion.state = "ready"
    /\ embeddings.state = "ready"
    /\ calls[1].op = "invoke_json"
    /\ calls[1].pc = "returned"
    /\ calls[1].json = ObjectA.value
    /\ calls[2] = calls[1]

============================================================================
